---- MODULE Spec2Model ----
(***************************************************************************)
(* crds.matches: match paths of a reference file under a context, their    *)
(* flattening to a dictionary, the minimum EXPTIME over references, and the *)
(* MatchesScript command line dump.                                         *)
(*                                                                          *)
(* Python values are modelled by shape:                                     *)
(*   a str     is <<"str", s>>   with s the sequence of its character codes *)
(*   a tuple   is <<"tuple", es>> with es the sequence of its elements      *)
(*   a dict    is a function from keys (character sequences) to values      *)
(* A call either returns a value or raises: [kind |-> "ok", v |-> value] or *)
(* [kind |-> <exception name>, v |-> <<>>].                                 *)
(***************************************************************************)
EXTENDS Integers, Sequences, FiniteSets, TLC

VARIABLES
    store,      \* the rmap store: context -> [loaded, matches: reference -> list of match paths]
    args,       \* self.args: brief_paths, omit_parameter_names, tuple_format
    contexts,   \* self.contexts
    files,      \* self.files
    index,      \* position of main's loop over self.contexts (next context to dump)
    out,        \* the lines written by log.write, oldest first
    pc,         \* control position of the running call
    call,       \* the arguments of the API call under way
    result      \* what the call returned or raised

vars == <<store, args, contexts, files, index, out, pc, call, result>>

-----------------------------------------------------------------------------
(* Character strings used by the code and by the sample data *)

DATE_OBS == <<68, 65, 84, 69, 45, 79, 66, 83>>  \* 'DATE-OBS'
TIME_OBS == <<84, 73, 77, 69, 45, 79, 66, 83>>  \* 'TIME-OBS'
META_OBSERVATION_DATE == <<77, 69, 84, 65, 46, 79, 66, 83, 69, 82, 86, 65, 84, 73, 79, 78, 46, 68, 65, 84, 69>>  \* 'META.OBSERVATION.DATE'
SENTINEL == <<49, 57, 48, 48, 45, 48, 49, 45, 48, 49, 32, 48, 48, 58, 48, 48, 58, 48, 48>>  \* '1900-01-01 00:00:00'
NONE == <<110, 111, 110, 101>>  \* 'none'
COLON == <<58>>  \* ':'
SPACE == <<32>>  \* ' '
EQUALS == <<61>>  \* '='
EMPTY == << >>  \* ''

OBSERVATORY == <<111, 98, 115, 101, 114, 118, 97, 116, 111, 114, 121>>  \* 'observatory'
INSTRUMENT == <<105, 110, 115, 116, 114, 117, 109, 101, 110, 116>>  \* 'instrument'
FILEKIND == <<102, 105, 108, 101, 107, 105, 110, 100>>  \* 'filekind'
INSTRUMENT_MIXED == <<73, 110, 115, 116, 114, 117, 109, 101, 110, 116>>  \* 'Instrument'
FILEKIND_UPPER == <<70, 73, 76, 69, 75, 73, 78, 68>>  \* 'FILEKIND'
HST == <<104, 115, 116>>  \* 'hst'
ACS == <<97, 99, 115>>  \* 'acs'
BIASFILE == <<98, 105, 97, 115, 102, 105, 108, 101>>  \* 'biasfile'
DETECTOR == <<68, 69, 84, 69, 67, 84, 79, 82>>  \* 'DETECTOR'
DETECTOR_MIXED == <<68, 101, 116, 101, 99, 116, 111, 114>>  \* 'Detector'
CCDAMP == <<67, 67, 68, 65, 77, 80>>  \* 'CCDAMP'
HRC == <<72, 82, 67>>  \* 'HRC'
WFC == <<87, 70, 67>>  \* 'WFC'
AMP_A == <<65>>  \* 'A'
AMP_ALT == <<65, 124, 66>>  \* 'A|B'
QUOTED == <<105, 116, 39, 115>>  \* "it's"
DATE_1900 == <<49, 57, 48, 48, 45, 48, 49, 45, 48, 49>>  \* '1900-01-01'
TIME_0000 == <<48, 48, 58, 48, 48, 58, 48, 48>>  \* '00:00:00'
DATE_2006 == <<50, 48, 48, 54, 45, 48, 55, 45, 48, 52>>  \* '2006-07-04'
TIME_1132 == <<49, 49, 58, 51, 50, 58, 51, 53>>  \* '11:32:35'
DATE_1997 == <<49, 57, 57, 55, 45, 48, 49, 45, 48, 49>>  \* '1997-01-01'
REF_BIA == <<113, 57, 95, 98, 105, 97, 46, 102, 105, 116, 115>>  \* 'q9_bia.fits'
REF_PFL == <<108, 99, 95, 112, 102, 108, 46, 102, 105, 116, 115>>  \* 'lc_pfl.fits'
CTX_HST == <<104, 115, 116, 46, 112, 109, 97, 112>>  \* 'hst.pmap'
CTX_0001 == <<104, 115, 116, 95, 48, 48, 48, 49, 46, 112, 109, 97, 112>>  \* 'hst_0001.pmap'

-----------------------------------------------------------------------------
(* Python values *)

Str(s) == <<"str", s>>
Tup(es) == <<"tuple", es>>
IsStr(x) == x[1] = "str"
PyLen(x) == Len(x[2])
\* x[i-1] of Python: a character of a str is a str of length one
Item(x, i) == IF IsStr(x) THEN Str(<<x[2][i]>>) ELSE x[2][i]
\* a (name, value) pair of two strings
Pair(name, value) == Tup(<<Str(name), Str(value)>>)

Ok(v) == [kind |-> "ok", v |-> v]
Raise(e) == [kind |-> e, v |-> << >>]

EmptyDict == [k \in {} |-> << >>]
\* result[key] = value with the key folded to lower case
DictSet_lower_key(d, key, value) ==
    LET low == [i \in 1..Len(key) |-> IF key[i] \in 65..90 THEN key[i] + 32 ELSE key[i]]
    IN  [k \in DOMAIN d \cup {low} |-> IF k = low THEN value ELSE d[k]]

\* result[key] = value
DictSet(d, key, value) == [k \in DOMAIN d \cup {key} |-> IF k = key THEN value ELSE d[k]]
\* an update in which the keys already present keep their values
DictUpdate_keep_present(d, other) ==
    [k \in DOMAIN d \cup DOMAIN other |-> IF k \in DOMAIN d THEN d[k] ELSE other[k]]

\* result.update(other)
DictUpdate(d, other) ==
    [k \in DOMAIN d \cup DOMAIN other |-> IF k \in DOMAIN other THEN other[k] ELSE d[k]]

\* a < b for two str: by character code, a proper prefix first
RECURSIVE StrLess(_, _)
StrLess(a, b) ==
    IF b = << >> THEN FALSE
    ELSE IF a = << >> THEN TRUE
    ELSE IF Head(a) # Head(b) THEN Head(a) < Head(b)
    ELSE StrLess(Tail(a), Tail(b))

\* min(list) of Python over str: ValueError on an empty list, else the first
\* item that no later item is smaller than
PyMin(items) ==
    LET RECURSIVE scan(_, _)
        scan(i, best) ==
            IF i > Len(items) THEN best
            ELSE scan(i + 1, IF StrLess(items[i], best) THEN items[i] ELSE best)
    IN IF Len(items) = 0 THEN Raise("ValueError") ELSE Ok(scan(2, items[1]))

-----------------------------------------------------------------------------
(* The rmap store, as seen through the calls crds.matches makes *)

\* rmap.asmapping(context, cached=True) and rmap.get_cached_mapping(context):
\* the loaded mapping, or the store's lookup error
asmapping(context) ==
    IF store[context].loaded THEN Ok(store[context].matches) ELSE Raise("LookupError")

\* ctx.file_matches(reffile): the list of match paths, possibly empty
file_matches(ctx, reffile) == ctx[reffile]

-----------------------------------------------------------------------------
(* API functions *)

find_full_match_paths(context, reffile) ==
    LET ctx == asmapping(context)
    IN  IF ctx.kind # "ok" THEN ctx ELSE Ok(file_matches(ctx.v, reffile))

RECURSIVE _flatten_items_to_dict(_)
_flatten_items_to_dict(match_path) ==
    LET RECURSIVE loop(_, _)
        loop(i, res) ==
            IF i > PyLen(match_path) THEN res
            ELSE LET par == Item(match_path, i)
                 IN  IF PyLen(par) = 2 /\ IsStr(Item(par, 1)) /\ IsStr(Item(par, 2))
                     THEN loop(i + 1, DictSet(res, Item(par, 1)[2], Item(par, 2)[2]))
                     ELSE loop(i + 1, DictUpdate(res, _flatten_items_to_dict(par)))
    IN  loop(1, EmptyDict)

find_match_paths_as_dict(context, reffile) ==
    LET matches == find_full_match_paths(context, reffile)
    IN  IF matches.kind # "ok" THEN matches
        ELSE Ok([i \in 1..Len(matches.v) |-> _flatten_items_to_dict(matches.v[i])])

\* get_exptime with the composite date tested before the date and time pair
get_exptime_composite_first(match_dict) ==
    IF META_OBSERVATION_DATE \in DOMAIN match_dict
    THEN match_dict[META_OBSERVATION_DATE]
    ELSE IF DATE_OBS \in DOMAIN match_dict /\ TIME_OBS \in DOMAIN match_dict
    THEN match_dict[DATE_OBS] \o SPACE \o match_dict[TIME_OBS]
    ELSE SENTINEL

\* get_exptime without its elif branch
get_exptime_no_composite(match_dict) ==
    IF DATE_OBS \in DOMAIN match_dict /\ TIME_OBS \in DOMAIN match_dict
    THEN match_dict[DATE_OBS] \o SPACE \o match_dict[TIME_OBS]
    ELSE SENTINEL

get_exptime(match_dict) ==
    IF DATE_OBS \in DOMAIN match_dict /\ TIME_OBS \in DOMAIN match_dict
    THEN match_dict[DATE_OBS] \o SPACE \o match_dict[TIME_OBS]
    ELSE IF META_OBSERVATION_DATE \in DOMAIN match_dict
    THEN match_dict[META_OBSERVATION_DATE]
    ELSE SENTINEL

\* _get_minimum_exptime returning the EXPTIME of the first match path
_get_minimum_exptime_first_path(context, reffile) ==
    LET path_dicts == find_match_paths_as_dict(context, reffile)
    IN  IF path_dicts.kind # "ok" THEN path_dicts
        ELSE IF Len(path_dicts.v) = 0 THEN Raise("ValueError")
        ELSE Ok(get_exptime(path_dicts.v[1]))

\* _get_minimum_exptime answering the default EXPTIME for no match paths
_get_minimum_exptime_default(context, reffile) ==
    LET path_dicts == find_match_paths_as_dict(context, reffile)
    IN  IF path_dicts.kind # "ok" THEN path_dicts
        ELSE IF Len(path_dicts.v) = 0 THEN Ok(SENTINEL)
        ELSE PyMin([i \in 1..Len(path_dicts.v) |-> get_exptime(path_dicts.v[i])])

_get_minimum_exptime(context, reffile) ==
    LET path_dicts == find_match_paths_as_dict(context, reffile)
    IN  IF path_dicts.kind # "ok" THEN path_dicts
        ELSE PyMin([i \in 1..Len(path_dicts.v) |-> get_exptime(path_dicts.v[i])])

\* the list comprehension evaluates the references in order and stops at
\* the first one that raises
get_minimum_exptime(context, references) ==
    LET each == [i \in 1..Len(references) |-> _get_minimum_exptime(context, references[i])]
        bad  == {i \in 1..Len(references) : each[i].kind # "ok"}
    IN  IF bad # {}
        THEN each[CHOOSE i \in bad : \A j \in bad : i <= j]
        ELSE PyMin([i \in 1..Len(references) |-> each[i].v])

-----------------------------------------------------------------------------
(* String operations of Python used by the script *)

\* s.upper()
Upper(s) == [i \in 1..Len(s) |-> IF s[i] \in 97..122 THEN s[i] - 32 ELSE s[i]]

\* sep.join(strs)
RECURSIVE Join(_, _)
Join(sep, strs) ==
    IF Len(strs) = 0 THEN EMPTY
    ELSE IF Len(strs) = 1 THEN strs[1]
    ELSE strs[1] \o sep \o Join(sep, Tail(strs))

HexDigit(d) == IF d < 10 THEN 48 + d ELSE 87 + d

\* repr(s) of a str: single quotes unless s holds a single quote and no
\* double quote; the quote and the backslash escaped, \t \n \r by letter,
\* other non-printable characters as \xhh
Repr(s) ==
    LET chars == {s[i] : i \in 1..Len(s)}
        quote == IF 39 \in chars /\ 34 \notin chars THEN 34 ELSE 39
        esc(c) == IF c = quote \/ c = 92 THEN <<92, c>>
                  ELSE IF c = 9 THEN <<92, 116>>
                  ELSE IF c = 10 THEN <<92, 110>>
                  ELSE IF c = 13 THEN <<92, 114>>
                  ELSE IF c < 32 \/ c >= 127
                       THEN <<92, 120, HexDigit(c \div 16), HexDigit(c % 16)>>
                  ELSE <<c>>
        RECURSIVE body(_)
        body(i) == IF i > Len(s) THEN EMPTY ELSE esc(s[i]) \o body(i + 1)
    IN  <<quote>> \o body(1) \o <<quote>>

\* truth value of a str or tuple
Truthy(x) == PyLen(x) > 0

\* x[1:] of a tuple
Rest(x) == Tup(Tail(x[2]))

-----------------------------------------------------------------------------
(* MatchesScript *)

\* format_prefix that leaves the case of the context items alone
format_prefix_no_upper(path) ==
    IF ~args.brief_paths
    THEN IF args.tuple_format
         THEN Tup([i \in 1..PyLen(path) |-> Item(path, i)])
         ELSE Str(Join(SPACE, [i \in 1..PyLen(Rest(path)) |-> Item(Item(Rest(path), i), 2)[2]]))
    ELSE Str(EMPTY)

format_prefix(path) ==
    IF ~args.brief_paths
    THEN IF args.tuple_format
         THEN Tup([i \in 1..PyLen(path) |->
                     LET tup == Item(path, i)
                     IN  Tup([j \in 1..PyLen(tup) |-> Str(Upper(Item(tup, j)[2]))])])
         ELSE Str(Join(SPACE, [i \in 1..PyLen(Rest(path)) |->
                                 Upper(Item(Item(Rest(path), i), 2)[2])]))
    ELSE Str(EMPTY)

\* format_match_tup writing the bare value in text mode, without repr
format_match_tup_no_repr(tup) ==
    IF args.tuple_format
    THEN IF ~args.omit_parameter_names THEN tup ELSE Item(tup, 2)
    ELSE LET t == <<Item(tup, 1)[2], Item(tup, 2)[2]>>
         IN  Str(Join(EQUALS, IF ~args.omit_parameter_names THEN t ELSE Tail(t)))

format_match_tup(tup) ==
    IF args.tuple_format
    THEN IF ~args.omit_parameter_names THEN tup ELSE Item(tup, 2)
    ELSE LET t == <<Item(tup, 1)[2], Repr(Item(tup, 2)[2])>>
         IN  Str(Join(EQUALS, IF ~args.omit_parameter_names THEN t ELSE Tail(t)))

\* [f(tup) for section in sections for tup in section]
RECURSIVE SectionItems(_)
SectionItems(sections) ==
    IF PyLen(sections) = 0 THEN << >>
    ELSE LET section == Item(sections, 1)
         IN  [i \in 1..PyLen(section) |-> format_match_tup(Item(section, i))]
             \o SectionItems(Rest(sections))

\* the representation of one match path: the body of find_match_tuples' loop
format_path(path) ==
    LET prefix == format_prefix(Item(path, 1))
        match_tuple == SectionItems(Rest(path))
    IN  IF args.tuple_format
        THEN IF Truthy(prefix) THEN Tup(prefix[2] \o match_tuple) ELSE Tup(match_tuple)
        ELSE Str(prefix[2] \o SPACE \o Join(SPACE, [i \in 1..Len(match_tuple) |-> match_tuple[i][2]]))

find_match_tuples(context, reffile) ==
    LET ctx == asmapping(context)
    IN  IF ctx.kind # "ok" THEN ctx
        ELSE LET matches == file_matches(ctx.v, reffile)
             IN  Ok([i \in 1..Len(matches) |-> format_path(matches[i])])

\* log.write(ctx, ref, ":", match)
Line(ctx, ref, match) == [ctx |-> ctx, ref |-> ref, sep |-> COLON, match |-> match]

\* dump_match_tuples labelling its lines with the context also when it is the
\* only one
dump_match_tuples_always_label(context) ==
    LET ctx == context
        RECURSIVE loop(_, _)
        loop(i, lines) ==
            IF i > Len(files) THEN [kind |-> "ok", lines |-> lines]
            ELSE LET ref == files[i]
                     matches == find_match_tuples(context, ref)
                 IN  IF matches.kind # "ok" THEN [kind |-> matches.kind, lines |-> lines]
                     ELSE IF Len(matches.v) > 0
                     THEN loop(i + 1, lines \o [j \in 1..Len(matches.v) |->
                                                  Line(ctx, ref, matches.v[j])])
                     ELSE loop(i + 1, Append(lines, Line(ctx, ref, Str(NONE))))
    IN  loop(1, << >>)

\* dump_match_tuples(context): the lines it writes and how it ends. A raise
\* of find_match_tuples ends the loop; the lines written before it stay.
dump_match_tuples(context) ==
    LET ctx == IF Len(contexts) > 1 THEN context ELSE EMPTY
        RECURSIVE loop(_, _)
        loop(i, lines) ==
            IF i > Len(files) THEN [kind |-> "ok", lines |-> lines]
            ELSE LET ref == files[i]
                     matches == find_match_tuples(context, ref)
                 IN  IF matches.kind # "ok" THEN [kind |-> matches.kind, lines |-> lines]
                     ELSE IF Len(matches.v) > 0
                     THEN loop(i + 1, lines \o [j \in 1..Len(matches.v) |->
                                                  Line(ctx, ref, matches.v[j])])
                     ELSE loop(i + 1, Append(lines, Line(ctx, ref, Str(NONE))))
    IN  loop(1, << >>)

-----------------------------------------------------------------------------
(* Bounds and the sample data the inputs are drawn from *)

MaxFlattenPaths == 2    \* match paths of the reference flattened
MaxMinPaths == 2        \* match paths per reference in the EXPTIME queries
MaxRefs == 2            \* references given to get_minimum_exptime
MaxRenderPaths == 2     \* match paths rendered by one find_match_tuples call
MaxScriptPaths == 2     \* match paths per (context, reference) in a script run

SeqsUpTo(S, n) == UNION {[1..k -> S] : k \in 0..n}
\* the non-empty lists of distinct elements of S
DistinctSeqs(S) ==
    {q \in UNION {[1..k -> S] : k \in 1..Cardinality(S)} :
        \A i, j \in DOMAIN q : i # j => q[i] # q[j]}

CtxIds == {CTX_HST, CTX_0001}
Refs == {REF_BIA, REF_PFL}

\* context segments: as the store gives them, and with other casings
CtxLower == Tup(<<Pair(OBSERVATORY, HST), Pair(INSTRUMENT, ACS), Pair(FILEKIND, BIASFILE)>>)
CtxMixed == Tup(<<Pair(OBSERVATORY, HST), Pair(INSTRUMENT_MIXED, ACS), Pair(FILEKIND_UPPER, BIASFILE)>>)
CtxSegs == {CtxLower, CtxMixed}

\* useafter segments
UseDateTime == Tup(<<Pair(DATE_OBS, DATE_2006), Pair(TIME_OBS, TIME_1132)>>)
UseEarly == Tup(<<Pair(DATE_OBS, DATE_1997), Pair(TIME_OBS, TIME_0000)>>)
UseCompositeShort == Tup(<<Pair(META_OBSERVATION_DATE, DATE_2006)>>)
UseNone == Tup(<< >>)

\* match segments: flat, with repeated names, and with nested groups
MatchFlat == Tup(<<Pair(DETECTOR, HRC), Pair(CCDAMP, AMP_ALT)>>)
MatchRepeat == Tup(<<Pair(DETECTOR, HRC), Pair(DETECTOR, WFC), Pair(DETECTOR_MIXED, HRC)>>)
MatchNested ==
    Tup(<<Pair(DETECTOR, HRC),
          Tup(<<Pair(CCDAMP, AMP_A), Tup(<<Pair(DETECTOR, WFC)>>)>>),
          Pair(CCDAMP, AMP_ALT)>>)
MatchNestedFirst ==
    Tup(<<Tup(<<Pair(DETECTOR, WFC), Pair(FILEKIND_UPPER, HRC)>>), Pair(DETECTOR, HRC)>>)
MatchQuoted == Tup(<<Pair(DETECTOR_MIXED, QUOTED)>>)
MatchEmpty == Tup(<< >>)

Path(c, m, u) == Tup(<<c, m, u>>)

FlattenPaths ==
    {Path(c, m, u) : c \in CtxSegs,
                     m \in {MatchEmpty, MatchFlat, MatchRepeat, MatchNested, MatchNestedFirst},
                     u \in {UseDateTime, UseNone}}

MinPaths ==
    {Path(CtxLower, MatchFlat, u) : u \in {UseDateTime, UseCompositeShort, UseNone}}

RenderPaths ==
    {Path(c, m, u) : c \in CtxSegs,
                     m \in {MatchEmpty, MatchFlat, MatchQuoted},
                     u \in {UseDateTime, UseNone}}

ScriptCatalog ==
    <<Path(CtxLower, MatchFlat, UseDateTime),
      Path(CtxMixed, MatchQuoted, UseNone),
      Path(CtxLower, MatchEmpty, UseEarly),
      Path(CtxMixed, MatchFlat, UseNone)>>
ScriptLists ==
    {SubSeq(ScriptCatalog, 1, n) : n \in {k \in 0..MaxScriptPaths : k <= Len(ScriptCatalog)}}

ExpKeys == {DATE_OBS, TIME_OBS, META_OBSERVATION_DATE, DETECTOR}
ExpValues == {DATE_1900, TIME_0000, SENTINEL, DATE_2006, HRC}
MatchDicts == UNION {[K -> ExpValues] : K \in SUBSET ExpKeys}

Unloaded == [loaded |-> FALSE, matches |-> [r \in Refs |-> << >>]]
Loaded(matches) == [loaded |-> TRUE, matches |-> matches]
\* a store in which only CTX_HST loads and only REF_BIA has match paths
OneRefStore(paths) ==
    [c \in CtxIds |-> IF c = CTX_HST
                      THEN Loaded([r \in Refs |-> IF r = REF_BIA THEN paths ELSE << >>])
                      ELSE Unloaded]

NoArgs == [brief_paths |-> FALSE, omit_parameter_names |-> FALSE, tuple_format |-> FALSE]
ArgsSet == [brief_paths : BOOLEAN, omit_parameter_names : BOOLEAN, tuple_format : BOOLEAN]
Pending == [kind |-> "pending", v |-> << >>]

-----------------------------------------------------------------------------
(* get_exptime on a flattened mapping *)

InitExptime ==
    /\ call \in MatchDicts
    /\ store = [c \in CtxIds |-> Unloaded]
    /\ args = NoArgs /\ contexts = << >> /\ files = << >> /\ index = 0 /\ out = << >>
    /\ pc = "ready" /\ result = Pending

GetExptime ==
    /\ pc = "ready"
    /\ result' = Ok(get_exptime(call))
    /\ pc' = "returned"
    /\ UNCHANGED <<store, args, contexts, files, index, out, call>>

NextExptime == GetExptime
SpecExptime == InitExptime /\ [][NextExptime]_vars

-----------------------------------------------------------------------------
(* find_match_paths_as_dict *)

InitFlatten ==
    /\ \E paths \in SeqsUpTo(FlattenPaths, MaxFlattenPaths) : store = OneRefStore(paths)
    /\ args = NoArgs /\ contexts = << >> /\ files = << >> /\ index = 0 /\ out = << >>
    /\ pc = "ready" /\ call = << >> /\ result = Pending

FindMatchPathsAsDict ==
    /\ pc = "ready"
    /\ \E context \in CtxIds, reffile \in Refs :
          /\ call' = <<context, reffile>>
          /\ result' = find_match_paths_as_dict(context, reffile)
    /\ pc' = "returned"
    /\ UNCHANGED <<store, args, contexts, files, index, out>>

NextFlatten == FindMatchPathsAsDict
SpecFlatten == InitFlatten /\ [][NextFlatten]_vars

-----------------------------------------------------------------------------
(* get_minimum_exptime *)

InitMin ==
    /\ \E m \in [Refs -> SeqsUpTo(MinPaths, MaxMinPaths)] :
          store = [c \in CtxIds |-> IF c = CTX_HST THEN Loaded(m) ELSE Unloaded]
    /\ args = NoArgs /\ contexts = << >> /\ files = << >> /\ index = 0 /\ out = << >>
    /\ pc = "ready" /\ call = << >> /\ result = Pending

GetMinimumExptime ==
    /\ pc = "ready"
    /\ \E context \in CtxIds, references \in SeqsUpTo(Refs, MaxRefs) :
          /\ call' = <<context, references>>
          /\ result' = get_minimum_exptime(context, references)
    /\ pc' = "returned"
    /\ UNCHANGED <<store, args, contexts, files, index, out>>

NextMin == GetMinimumExptime
SpecMin == InitMin /\ [][NextMin]_vars

-----------------------------------------------------------------------------
(* MatchesScript.find_match_tuples under every combination of the switches *)

InitRender ==
    /\ \E paths \in SeqsUpTo(RenderPaths, MaxRenderPaths) : store = OneRefStore(paths)
    /\ args \in ArgsSet
    /\ contexts = << >> /\ files = << >> /\ index = 0 /\ out = << >>
    /\ pc = "ready" /\ call = << >> /\ result = Pending

FindMatchTuples ==
    /\ pc = "ready"
    /\ \E context \in CtxIds, reffile \in Refs :
          /\ call' = <<context, reffile>>
          /\ result' = find_match_tuples(context, reffile)
    /\ pc' = "returned"
    /\ UNCHANGED <<store, args, contexts, files, index, out>>

NextRender == FindMatchTuples
SpecRender == InitRender /\ [][NextRender]_vars

-----------------------------------------------------------------------------
(* MatchesScript.main *)

Init ==
    /\ store \in [CtxIds -> {Unloaded} \cup {Loaded(m) : m \in [Refs -> ScriptLists]}]
    /\ args \in ArgsSet
    /\ contexts \in DistinctSeqs(CtxIds)
    /\ files \in DistinctSeqs(Refs)
    /\ index = 0 /\ out = << >>
    /\ pc = "start" /\ call = << >> /\ result = Pending

\* for ref in self.files: cmdline.reference_file(ref)
MainCheckFiles ==
    /\ pc = "start"
    /\ pc' = "loop"
    /\ index' = 1
    /\ UNCHANGED <<store, args, contexts, files, out, call, result>>

\* a loop of main that goes on to the next context when one does not load
DumpMatchTuples_skip_unloaded ==
    /\ pc = "loop"
    /\ index <= Len(contexts)
    /\ out' = out \o dump_match_tuples(contexts[index]).lines
    /\ index' = index + 1
    /\ UNCHANGED <<store, args, contexts, files, call, pc, result>>

\* one round of: for context in self.contexts: self.dump_match_tuples(context)
DumpMatchTuples ==
    /\ pc = "loop"
    /\ index <= Len(contexts)
    /\ LET dump == dump_match_tuples(contexts[index])
       IN  /\ out' = out \o dump.lines
           /\ IF dump.kind = "ok"
              THEN /\ index' = index + 1
                   /\ UNCHANGED <<pc, result>>
              ELSE /\ pc' = "raised"
                   /\ result' = Raise(dump.kind)
                   /\ UNCHANGED index
    /\ UNCHANGED <<store, args, contexts, files, call>>

MainReturn ==
    /\ pc = "loop"
    /\ index > Len(contexts)
    /\ pc' = "done"
    /\ result' = Ok(<< >>)
    /\ UNCHANGED <<store, args, contexts, files, index, out, call>>

Next == MainCheckFiles \/ DumpMatchTuples \/ MainReturn
Spec == Init /\ [][Next]_vars

-----------------------------------------------------------------------------
(* Vocabulary of the properties *)

\* a <= b in lexicographic order, stated by the first position where they differ
LexLeq(a, b) ==
    \E k \in 0..Len(a) :
        /\ k <= Len(b)
        /\ \A i \in 1..k : a[i] = b[i]
        /\ \/ k = Len(a)
           \/ k < Len(b) /\ a[k + 1] < b[k + 1]

IsLeafPair(x) == ~IsStr(x) /\ PyLen(x) = 2 /\ IsStr(x[2][1]) /\ IsStr(x[2][2])

\* the leaf pairs of a group, depth first and left to right, as <<name, value>>
RECURSIVE LeafPairs(_)
LeafPairs(group) ==
    LET RECURSIVE walk(_)
        walk(i) ==
            IF i > PyLen(group) THEN << >>
            ELSE (IF IsLeafPair(group[2][i])
                  THEN << <<group[2][i][2][1][2], group[2][i][2][2][2]>> >>
                  ELSE LeafPairs(group[2][i])) \o walk(i + 1)
    IN  walk(1)

LeafNames(group) == {LeafPairs(group)[i][1] : i \in 1..Len(LeafPairs(group))}

\* the value of the last leaf pair called name
LastValue(leaves, name) ==
    LET last == CHOOSE i \in 1..Len(leaves) :
                    /\ leaves[i][1] = name
                    /\ \A j \in (i + 1)..Len(leaves) : leaves[j][1] # name
    IN  leaves[last][2]

\* s.lower()
Lower(s) == [i \in 1..Len(s) |-> IF s[i] \in 65..90 THEN s[i] + 32 ELSE s[i]]

CalledPaths == store[call[1]].matches[call[2]]
Returned == pc = "returned" /\ result.kind = "ok"

-----------------------------------------------------------------------------
(* Properties of get_exptime, under SpecExptime *)

HasDateTime == DATE_OBS \in DOMAIN call /\ TIME_OBS \in DOMAIN call
HasComposite == META_OBSERVATION_DATE \in DOMAIN call

\* C2: get_exptime applies its policy in strict priority order: with both
\* DATE-OBS and TIME-OBS present the result is "<date> <time>", also when
\* META.OBSERVATION.DATE is present; with at most one of them and
\* META.OBSERVATION.DATE present the result is that value unchanged; otherwise
\* it is "1900-01-01 00:00:00".
C2_PriorityOrder ==
    pc = "returned" =>
        /\ HasDateTime => result.v = call[DATE_OBS] \o SPACE \o call[TIME_OBS]
        /\ ~HasDateTime /\ HasComposite => result.v = call[META_OBSERVATION_DATE]
        /\ ~HasDateTime /\ ~HasComposite => result.v = SENTINEL

\* all three keys are present and the date and time pair won over the composite
C2_Witness ==
    /\ pc = "returned"
    /\ HasDateTime /\ HasComposite
    /\ result.v = DATE_2006 \o SPACE \o TIME_0000
    /\ call[META_OBSERVATION_DATE] # result.v

\* C3 as stated: the result is the sentinel if and only if neither a date and
\* time pair nor a composite date is present.
C3_SentinelIff ==
    pc = "returned" => (result.v = SENTINEL <=> ~(HasDateTime \/ HasComposite))

\* C3 amended: the result is the sentinel whenever neither a date and time pair
\* nor a composite date is present; when one is present the result is the
\* sentinel only if the values present spell it themselves (date "1900-01-01"
\* with time "00:00:00", or the composite value "1900-01-01 00:00:00").
C3_SentinelUnlessSpelled ==
    pc = "returned" =>
        /\ ~(HasDateTime \/ HasComposite) => result.v = SENTINEL
        /\ (HasDateTime \/ HasComposite) /\ result.v = SENTINEL =>
              \/ HasDateTime /\ call[DATE_OBS] = DATE_1900 /\ call[TIME_OBS] = TIME_0000
              \/ ~HasDateTime /\ call[META_OBSERVATION_DATE] = SENTINEL

\* a composite date is present, the pair is not, and the result is the sentinel
C3_Witness ==
    /\ pc = "returned"
    /\ HasComposite /\ ~HasDateTime
    /\ result.v = SENTINEL

-----------------------------------------------------------------------------
(* Properties of _flatten_items_to_dict, under SpecFlatten *)

\* the mapping the leaf pairs of a path define when a later pair of the same
\* name overwrites an earlier one
LastWins(path) ==
    [name \in LeafNames(path) |-> LastValue(LeafPairs(path), name)]

\* C5: _flatten_items_to_dict returns the mapping obtained by visiting the leaf
\* pairs depth first, left to right, a later pair overwriting an earlier one of
\* the same name: its keys are exactly the leaf names of the path and each key
\* maps to the value of the last leaf of that name.
C5_FlattenLastWins ==
    Returned =>
        /\ Len(result.v) = Len(CalledPaths)
        /\ \A i \in 1..Len(CalledPaths) :
              /\ DOMAIN result.v[i] = LeafNames(CalledPaths[i])
              /\ result.v[i] = LastWins(CalledPaths[i])

\* a path with a nested group in which a name occurs twice with two values was
\* flattened
C5_Witness ==
    /\ Returned
    /\ \E i \in 1..Len(CalledPaths) :
          LET leaves == LeafPairs(CalledPaths[i])
          IN  /\ \E g \in 1..PyLen(CalledPaths[i][2][2]) : ~IsLeafPair(CalledPaths[i][2][2][2][g])
              /\ \E a, b \in 1..Len(leaves) :
                    a < b /\ leaves[a][1] = leaves[b][1] /\ leaves[a][2] # leaves[b][2]
              /\ result.v[i][DETECTOR] = HRC

ContextNames(path) == LeafNames(path[2][1])
OtherNames(path) == LeafNames(Rest(path))

\* C10 as stated: the keys that come from the context segment are its names in
\* lower case whatever their casing in the path, and the keys of the other
\* segments are the names as cased in the path.
C10_ContextKeysLowered ==
    Returned =>
        \A i \in 1..Len(CalledPaths) :
            DOMAIN result.v[i] =
                {Lower(n) : n \in ContextNames(CalledPaths[i])} \cup OtherNames(CalledPaths[i])

\* C10 amended: the keys that come from the context segment, like the keys of
\* the match and useafter segments, are the names exactly as cased in the path:
\* a context name is a key as it is written, and its lower-case form is a key
\* only when some leaf of the path is written that way.
C10_KeysAsCased ==
    Returned =>
        \A i \in 1..Len(CalledPaths) :
            /\ DOMAIN result.v[i] = ContextNames(CalledPaths[i]) \cup OtherNames(CalledPaths[i])
            /\ \A n \in ContextNames(CalledPaths[i]) :
                  /\ n \in DOMAIN result.v[i]
                  /\ Lower(n) \in DOMAIN result.v[i] => Lower(n) \in LeafNames(CalledPaths[i])

\* a path whose context names are not all lower case was flattened, and an
\* upper-case context name is a key while its lower-case form is not
C10_Witness ==
    /\ Returned
    /\ \E i \in 1..Len(CalledPaths) :
          /\ FILEKIND_UPPER \in ContextNames(CalledPaths[i])
          /\ FILEKIND_UPPER \in DOMAIN result.v[i]
          /\ FILEKIND \notin DOMAIN result.v[i]

-----------------------------------------------------------------------------
(* Properties of get_minimum_exptime, under SpecMin *)

Reverse(q) == [i \in 1..Len(q) |-> q[Len(q) + 1 - i]]

\* the match paths of the i-th reference of the call
RefPaths(i) == store[call[1]].matches[call[2][i]]

\* the get_exptime values of all flattened match paths of all the references
AllExptimes ==
    UNION {{get_exptime(_flatten_items_to_dict(RefPaths(i)[j])) : j \in 1..Len(RefPaths(i))} :
              i \in 1..Len(call[2])}

\* the context loads, the list of references is not empty and each of them
\* has a match path
AllMatched ==
    /\ store[call[1]].loaded
    /\ Len(call[2]) > 0
    /\ \A i \in 1..Len(call[2]) : Len(RefPaths(i)) > 0

\* C1: for a non-empty list of references that each have a match path,
\* get_minimum_exptime returns the lexicographically smallest of the
\* get_exptime values of all flattened match paths of all the references: it is
\* one of them, none is smaller, and the order of the references does not
\* change it.
C1_MinimumOfAllPaths ==
    pc = "returned" /\ AllMatched =>
        /\ result.kind = "ok"
        /\ result.v \in AllExptimes
        /\ \A v \in AllExptimes : LexLeq(result.v, v)
        /\ get_minimum_exptime(call[1], Reverse(call[2])) = result

\* two references were given and the minimum is a proper prefix of another
\* EXPTIME, found in the last match path of the second reference
C1_Witness ==
    /\ pc = "returned" /\ AllMatched
    /\ Len(call[2]) = 2 /\ call[2][1] # call[2][2]
    /\ Len(RefPaths(2)) = 2
    /\ result.v = DATE_2006
    /\ get_exptime(_flatten_items_to_dict(RefPaths(2)[2])) = DATE_2006
    /\ get_exptime(_flatten_items_to_dict(RefPaths(2)[1])) = DATE_2006 \o SPACE \o TIME_1132
    /\ get_exptime(_flatten_items_to_dict(RefPaths(1)[1])) = DATE_2006 \o SPACE \o TIME_1132

\* C4: get_minimum_exptime ends in an error, and returns no timestamp or
\* default, when the list of references is empty or when any one of them has
\* no match path, wherever it stands in the list and whatever the others have.
C4_EmptyIsAnError ==
    pc = "returned" =>
        /\ Len(call[2]) = 0 => result.kind = "ValueError"
        /\ (\E i \in 1..Len(call[2]) : Len(RefPaths(i)) = 0) => result.kind # "ok"
        /\ store[call[1]].loaded /\ (\E i \in 1..Len(call[2]) : Len(RefPaths(i)) = 0)
              => result.kind = "ValueError"

\* the first reference has match paths, the second has none, and the call raised
C4_Witness ==
    /\ pc = "returned"
    /\ store[call[1]].loaded
    /\ Len(call[2]) = 2
    /\ Len(RefPaths(1)) > 0 /\ Len(RefPaths(2)) = 0
    /\ result.kind = "ValueError"

-----------------------------------------------------------------------------
(* Properties of find_match_tuples, under SpecRender *)

\* a (name, value) pair with both strings in upper case
UpperPair(leaf) == Pair(Upper(leaf[1]), Upper(leaf[2]))
AsPair(leaf) == Pair(leaf[1], leaf[2])

ContextLeaves(path) == LeafPairs(path[2][1])
OtherLeaves(path) == LeafPairs(Rest(path))

TupleArgs == args.tuple_format /\ ~args.brief_paths /\ ~args.omit_parameter_names
BriefValueArgs == ~args.tuple_format /\ args.brief_paths /\ args.omit_parameter_names

\* C8 as stated: with tuple_format alone the rendering is a tuple whose first
\* element is the upper-cased context triple, as one element, and whose
\* remaining elements are the leaf pairs of the match and useafter segments.
C8_PrefixIsOneElement ==
    Returned /\ TupleArgs =>
        \A i \in 1..Len(CalledPaths) :
            LET path == CalledPaths[i]
            IN  result.v[i] =
                    Tup(<<Tup([k \in 1..Len(ContextLeaves(path)) |-> UpperPair(ContextLeaves(path)[k])])>>
                        \o [k \in 1..Len(OtherLeaves(path)) |-> AsPair(OtherLeaves(path)[k])])

\* C8 amended: with tuple_format alone the rendering is one flat tuple whose
\* first three elements are the three context pairs, names and values in upper
\* case, each an element of its own, followed by the leaf pairs of the match
\* segment and then of the useafter segment, in order and unchanged.
C8_PrefixIsThreeElements ==
    Returned /\ TupleArgs =>
        \A i \in 1..Len(CalledPaths) :
            LET path == CalledPaths[i]
            IN  /\ Len(ContextLeaves(path)) = 3
                /\ result.v[i] =
                      Tup([k \in 1..3 |-> UpperPair(ContextLeaves(path)[k])]
                          \o [k \in 1..Len(OtherLeaves(path)) |-> AsPair(OtherLeaves(path)[k])])

\* a path with mixed-case context names and four leaf pairs was rendered as a
\* tuple of seven pairs
C8_Witness ==
    /\ Returned /\ TupleArgs
    /\ \E i \in 1..Len(CalledPaths) :
          /\ CalledPaths[i] = Path(CtxMixed, MatchFlat, UseDateTime)
          /\ PyLen(result.v[i]) = 7
          /\ result.v[i][2][3] = Pair(FILEKIND_UPPER, Upper(BIASFILE))

\* the quoted literal forms of the leaf values, in order
QuotedValues(path) == [k \in 1..Len(OtherLeaves(path)) |-> Repr(OtherLeaves(path)[k][2])]

\* C9 as stated: in text mode with brief_paths and omit_parameter_names the
\* rendering is the quoted leaf values joined by single spaces, and nothing
\* precedes the first of them.
C9_NothingBeforeFirstValue ==
    Returned /\ BriefValueArgs =>
        \A i \in 1..Len(CalledPaths) :
            result.v[i] = Str(Join(SPACE, QuotedValues(CalledPaths[i])))

\* C9 amended: in text mode with brief_paths and omit_parameter_names the
\* rendering is one space (the separator after the empty prefix) followed by
\* the quoted leaf values, in order, joined by single spaces; no parameter name
\* and no context value appears.
C9_SpaceThenValues ==
    Returned /\ BriefValueArgs =>
        \A i \in 1..Len(CalledPaths) :
            result.v[i] = Str(SPACE \o Join(SPACE, QuotedValues(CalledPaths[i])))

\* a path with a value holding a quote and two useafter values was rendered:
\* the text starts with a space and the first value is in double quotes
C9_Witness ==
    /\ Returned /\ BriefValueArgs
    /\ \E i \in 1..Len(CalledPaths) :
          /\ CalledPaths[i] = Path(CtxLower, MatchQuoted, UseDateTime)
          /\ SubSeq(result.v[i][2], 1, 8) = <<32, 34>> \o QUOTED \o <<34, 32>>

-----------------------------------------------------------------------------
(* Properties of MatchesScript.main, under Spec *)

\* the context label of a run: empty for one context, the context otherwise
Label(context) == IF Len(contexts) = 1 THEN EMPTY ELSE context

\* the lines of one (context, reference) pair: one per match path in the
\* store's order, or the single "none" line
PairLines(context, ref) ==
    LET paths == store[context].matches[ref]
    IN  IF Len(paths) = 0
        THEN <<Line(Label(context), ref, Str(NONE))>>
        ELSE [j \in 1..Len(paths) |-> Line(Label(context), ref, format_path(paths[j]))]

RECURSIVE ContextLinesFrom(_, _)
ContextLinesFrom(context, i) ==
    IF i > Len(files) THEN << >>
    ELSE PairLines(context, files[i]) \o ContextLinesFrom(context, i + 1)
ContextLines(context) == ContextLinesFrom(context, 1)

\* the lines of the first n contexts
RECURSIVE ExpectedOut(_)
ExpectedOut(n) ==
    IF n = 0 THEN << >> ELSE ExpectedOut(n - 1) \o ContextLines(contexts[n])

AllLoad == \A i \in 1..Len(contexts) : store[contexts[i]].loaded
NoneLines == {k \in 1..Len(out) : out[k].match = Str(NONE)}
UnmatchedPairs ==
    {<<i, j>> \in (1..Len(contexts)) \X (1..Len(files)) :
        Len(store[contexts[i]].matches[files[j]]) = 0}

\* C6: when every context loads, the lines written are, for each context in
\* order and within it each reference in order, one line per match path of the
\* pair in the store's order, or exactly one line ending in "none" when the pair
\* has no match path; no pair yields both, and the label of every line is empty
\* when one context is processed and the context when more than one is.
C6_LineSequence ==
    AllLoad =>
        /\ pc = "loop" => out = ExpectedOut(index - 1)
        /\ pc = "done" =>
              /\ out = ExpectedOut(Len(contexts))
              /\ Cardinality(NoneLines) = Cardinality(UnmatchedPairs)
              /\ Len(contexts) = 1 => \A k \in 1..Len(out) : out[k].ctx = EMPTY
              /\ Len(contexts) > 1 =>
                    \A k \in 1..Len(out) : \E i \in 1..Len(contexts) : out[k].ctx = contexts[i]

\* a finished run over two contexts and two references, with a pair of two
\* match paths and a pair of none
C6_Witness ==
    /\ pc = "done" /\ AllLoad
    /\ Len(contexts) = 2 /\ Len(files) = 2
    /\ Len(store[contexts[1]].matches[files[1]]) = 2
    /\ Len(store[contexts[2]].matches[files[2]]) = 0
    /\ out[1].ctx = contexts[1] /\ out[2].ctx = contexts[1]
    /\ out[Len(out)] = Line(contexts[2], files[2], Str(NONE))

LinesOf(context) == SelectSeq(out, LAMBDA line : line.ctx = context)

=============================================================================
